---------------------------- MODULE Spec2Model ----------------------------
(***************************************************************************)
(* Model of mcp-dynamic-html-app: the record store (database.py), the      *)
(* renderer (html_renderer.py) and the two transports that expose the      *)
(* three tools (server.py: MCP handle_call_tool; server_http.py: the       *)
(* aiohttp route handlers).                                                *)
(*                                                                         *)
(* Python values are tagged records, exceptions are values that the       *)
(* handlers' try/except clauses turn into responses, the module-level     *)
(* random generator is the variable rng and the wall clock is the         *)
(* variable now (a day ordinal; the time of day is not modelled, no       *)
(* date computed below depends on it).                                    *)
(***************************************************************************)
EXTENDS Integers, Sequences, FiniteSets, TLC

(***************************************************************************)
(* Bounds of the model.                                                    *)
(***************************************************************************)
\* number of states of the random generator (raw draws are 0..RngStates-1)
RngStates == 4
\* how many days the clock may advance from its initial value
MaxTicks == 1
\* how far above the facade's upper limit (30) a requested limit may go
MaxOver == 1

(***************************************************************************)
(* Python values.                                                          *)
(***************************************************************************)
Absent == [t |-> "absent"]
StrV(s) == [t |-> "str", s |-> s]
IntV(n) == [t |-> "int", n |-> n]

IsStr(v) == v.t = "str"
IsInt(v) == v.t = "int"

\* dict.get(key, default) / MultiDict.get(key, default)
Get(d, key, default) == IF d[key] = Absent THEN default ELSE d[key]

\* Python truthiness of an optional string: `not x` holds of None and of ""
Falsy(v) == v = Absent \/ (IsStr(v) /\ v.s = "")

\* Outcome of a call: a returned value or a raised exception.
Ok(v) == [exc |-> "none", val |-> v]
Raise(type, msg) == [exc |-> type, msg |-> msg]

(***************************************************************************)
(* int(text) and str(n) on decimal text, a string being the sequence of   *)
(* its characters.                                                         *)
(***************************************************************************)
Digits == <<"0", "1", "2", "3", "4", "5", "6", "7", "8", "9">>

IsDigit(c) == \E i \in 1..10 : Digits[i] = c

DigitVal(c) == (CHOOSE i \in 1..10 : Digits[i] = c) - 1

RECURSIVE DigitsValue(_, _)
DigitsValue(cs, acc) ==
    IF cs = <<>> THEN acc
    ELSE DigitsValue(Tail(cs), acc * 10 + DigitVal(Head(cs)))

\* int(s) for a str s: an optional sign and at least one decimal digit,
\* ValueError otherwise.
ParseInt(cs) ==
    LET signed == cs # <<>> /\ Head(cs) \in {"-", "+"}
        body   == IF signed THEN Tail(cs) ELSE cs
    IN  IF body # <<>> /\ \A i \in 1..Len(body) : IsDigit(body[i])
        THEN Ok(IF signed /\ Head(cs) = "-"
                THEN 0 - DigitsValue(body, 0)
                ELSE DigitsValue(body, 0))
        ELSE Raise("ValueError", <<"invalid literal for int() with base 10: ", cs>>)

RECURSIVE NatChars(_)
NatChars(n) ==
    IF n < 10 THEN <<Digits[n + 1]>>
    ELSE Append(NatChars(n \div 10), Digits[(n % 10) + 1])

\* str(n) for an int n
PyStr(n) == IF n < 0 THEN <<"-">> \o NatChars(0 - n) ELSE NatChars(n)

(***************************************************************************)
(* datetime: a date is its day ordinal, ordinal 1 being 1 January 2024;   *)
(* strftime("%Y-%m-%d") yields <<year, month, day>>.                       *)
(***************************************************************************)
IsLeap(y) == y % 4 = 0 /\ (y % 100 # 0 \/ y % 400 = 0)

DaysInYear(y) == IF IsLeap(y) THEN 366 ELSE 365

DaysInMonth(y, m) ==
    IF m = 2 THEN (IF IsLeap(y) THEN 29 ELSE 28)
    ELSE IF m \in {4, 6, 9, 11} THEN 30 ELSE 31

\* the year of day n counted from 1 January of year y, and the day in it
RECURSIVE OrdToYear(_, _)
OrdToYear(n, y) ==
    IF n > DaysInYear(y) THEN OrdToYear(n - DaysInYear(y), y + 1)
    ELSE <<y, n>>

\* the month of day n of year y counted from the first of month m
RECURSIVE OrdToMonth(_, _, _)
OrdToMonth(y, n, m) ==
    IF n > DaysInMonth(y, m) THEN OrdToMonth(y, n - DaysInMonth(y, m), m + 1)
    ELSE <<y, m, n>>

MonthDay(yn) == OrdToMonth(yn[1], yn[2], 1)

Strftime(ord) == MonthDay(OrdToYear(ord, 2024))

\* datetime +/- timedelta(days=k)
AddDays(ord, k) == ord + k

(***************************************************************************)
(* random: the generator's state advances by one per draw; a raw draw is  *)
(* the state, scaled onto the requested closed range.                     *)
(***************************************************************************)
Advance(s, draws) == (s + draws) % RngStates

\* random.randint(a, b): an integer in a..b
Randint(s, a, b) == a + (s * (b - a)) \div (RngStates - 1)

\* round(random.uniform(a, b), 2) in hundredths; a and b are given in
\* hundredths too
RoundUniform(s, a, b) == a + (s * (b - a)) \div (RngStates - 1)

(***************************************************************************)
(* database.py                                                             *)
(***************************************************************************)
USERS_DB ==
    [i \in {"user_001", "user_002", "user_003"} |->
        IF i = "user_001" THEN
            [id |-> "user_001", name |-> "Alice Johnson",
             email |-> "alice@example.com", role |-> "Product Manager",
             joined |-> "2023-01-15", status |-> "active",
             avatar |-> "https://i.pravatar.cc/150?img=1"]
        ELSE IF i = "user_002" THEN
            [id |-> "user_002", name |-> "Bob Smith",
             email |-> "bob@example.com", role |-> "Software Engineer",
             joined |-> "2022-06-20", status |-> "active",
             avatar |-> "https://i.pravatar.cc/150?img=2"]
        ELSE
            [id |-> "user_003", name |-> "Carol Davis",
             email |-> "carol@example.com", role |-> "UX Designer",
             joined |-> "2023-03-10", status |-> "active",
             avatar |-> "https://i.pravatar.cc/150?img=3"]]

\* get_user_data falling back to the first record instead of raising
get_user_data_fallback(db, user_id) ==
    IF user_id.s \notin DOMAIN db THEN Ok(db["user_001"]) ELSE Ok(db[user_id.s])

\* get_user_data(user_id) on the table db; user_id is a str value
get_user_data(db, user_id) ==
    IF user_id.s \notin DOMAIN db
    THEN Raise("ValueError", <<"User ", user_id.s, " not found">>)
    ELSE Ok(db[user_id.s])

Categories == {StrV("sales"), StrV("performance"), StrV("engagement")}

\* The dict one iteration of the loop appends (lines 54-74) for the date
\* `date`, the generator being in state s; metric_type is one of the
\* three branches.
MetricPoint(metric_type, date, s) ==
    IF metric_type = StrV("sales") THEN
        [date |-> Strftime(date),
         revenue |-> Randint(s, 5000, 25000),
         orders |-> Randint(Advance(s, 1), 50, 200),
         avg_order_value |-> RoundUniform(Advance(s, 2), 8000, 15000)]
    ELSE IF metric_type = StrV("performance") THEN
        [date |-> Strftime(date),
         response_time |-> Randint(s, 50, 500),
         requests |-> Randint(Advance(s, 1), 10000, 50000),
         error_rate |-> RoundUniform(Advance(s, 2), 10, 250)]
    ELSE
        [date |-> Strftime(date),
         active_users |-> Randint(s, 1000, 5000),
         page_views |-> Randint(Advance(s, 1), 50000, 200000),
         avg_session_duration |-> Randint(Advance(s, 2), 120, 600)]

\* draws one iteration makes: three in each branch, none when no branch
\* matches
DrawsPerPoint(metric_type) == IF metric_type \in Categories THEN 3 ELSE 0

\* the loop running over range(limit + 1)
MetricsLoopInclusive(metric_type, base_date, limit, s) ==
    IF metric_type \in Categories /\ limit + 1 > 0
    THEN [k \in 1..(limit + 1) |->
            MetricPoint(metric_type, AddDays(base_date, k - 1),
                        Advance(s, DrawsPerPoint(metric_type) * (k - 1)))]
    ELSE <<>>

\* the loop with `else` for `elif metric_type == "engagement"`
MetricsLoopElse(metric_type, base_date, limit, s) ==
    IF limit > 0
    THEN [k \in 1..limit |->
            MetricPoint(metric_type, AddDays(base_date, k - 1),
                        Advance(s, DrawsPerPoint(metric_type) * (k - 1)))]
    ELSE <<>>

\* for i in range(limit): iteration i (from 0) appends the point of
\* base_date + i days, the draws before it being those of the earlier
\* iterations; range(limit) is empty for limit <= 0
MetricsLoop(metric_type, base_date, limit, s) ==
    IF metric_type \in Categories /\ limit > 0
    THEN [k \in 1..limit |->
            MetricPoint(metric_type, AddDays(base_date, k - 1),
                        Advance(s, DrawsPerPoint(metric_type) * (k - 1)))]
    ELSE <<>>

\* get_metrics_data(metric_type, limit) called with generator state s on
\* day today: [exc, val, rng]
get_metrics_data(metric_type, limit, s, today) ==
    IF ~IsInt(limit)
    THEN [exc |-> "TypeError",
          msg |-> <<"unsupported type for timedelta days component: ", limit.t>>,
          rng |-> s]
    ELSE [exc |-> "none",
          val |-> MetricsLoop(metric_type, AddDays(today, 0 - limit.n),
                              limit.n, s),
          rng |-> IF limit.n > 0
                  THEN Advance(s, DrawsPerPoint(metric_type) * limit.n)
                  ELSE s]

\* get_dashboard_data() with generator state s on day today
get_dashboard_data(db, s, today) ==
    [exc |-> "none",
     val |-> [timestamp |-> Strftime(today),
              stats |-> [total_users |-> Cardinality(DOMAIN db),
                         active_sessions |-> Randint(s, 10, 50),
                         revenue_today |-> Randint(Advance(s, 1), 5000, 15000),
                         orders_today |-> Randint(Advance(s, 2), 50, 150)],
              recent_activity |->
                  <<[user |-> "Alice Johnson",
                     action |-> "Completed order #1234",
                     time |-> "2 minutes ago"],
                    [user |-> "Bob Smith", action |-> "Updated profile",
                     time |-> "15 minutes ago"],
                    [user |-> "Carol Davis", action |-> "Viewed dashboard",
                     time |-> "1 hour ago"]>>,
              alerts |->
                  <<[level |-> "info", message |-> "System running smoothly"],
                    [level |-> "warning",
                     message |-> "Database backup pending"]>>],
     rng |-> Advance(s, 3)]

(***************************************************************************)
(* html_renderer.py.  A rendered document is the record of what the       *)
(* template interpolates, in document order; the fixed markup and CSS     *)
(* around it are not modelled.                                            *)
(***************************************************************************)
\* format(n, ","): the groups of three digits
RECURSIVE Commas(_)
Commas(n) == IF n < 1000 THEN <<n>> ELSE Append(Commas(n \div 1000), n % 1000)

\* str(x) of a float rounded to two decimals, x given in hundredths: the
\* integer part and the fraction digits, trailing zero dropped
FloatStr(h) ==
    [whole |-> h \div 100,
     frac  |-> IF h % 100 = 0 THEN <<0>>
               ELSE IF h % 10 = 0 THEN <<(h % 100) \div 10>>
               ELSE <<(h % 100) \div 10, h % 10>>]

\* str.title() and str.upper() on the strings that occur
Title(str) ==
    CASE str = "sales" -> "Sales"
      [] str = "performance" -> "Performance"
      [] str = "engagement" -> "Engagement"
      [] str = "revenue" -> "Revenue"
      [] OTHER -> str

\* str.upper() leaving the string as it is
UpperIdentity(str) == str

Upper(str) ==
    CASE str = "active" -> "ACTIVE"
      [] str = "inactive" -> "INACTIVE"
      [] str = "Pending" -> "PENDING"
      [] OTHER -> str

Cell(pre, val, suf) == [pre |-> pre, val |-> val, suf |-> suf]

\* The keys a row template reads, in the order it reads them, and the
\* header cells, by metric_type (lines 279-287).
RowKeys(metric_type) ==
    IF metric_type = StrV("sales")
    THEN <<"date", "revenue", "orders", "avg_order_value">>
    ELSE IF metric_type = StrV("performance")
    THEN <<"date", "response_time", "requests", "error_rate">>
    ELSE <<"date", "active_users", "page_views", "avg_session_duration">>

Headers(metric_type) ==
    IF metric_type = StrV("sales")
    THEN <<"Date", "Revenue", "Orders", "Avg Order Value">>
    ELSE IF metric_type = StrV("performance")
    THEN <<"Date", "Response Time (ms)", "Requests", "Error Rate (%)">>
    ELSE <<"Date", "Active Users", "Page Views", "Avg Session (s)">>

\* row_template(m) for a point m holding every key the template reads
RowTemplate(metric_type, m) ==
    IF metric_type = StrV("sales")
    THEN <<Cell("", m.date, ""), Cell("$", Commas(m.revenue), ""),
           Cell("", m.orders, ""), Cell("$", FloatStr(m.avg_order_value), "")>>
    ELSE IF metric_type = StrV("performance")
    THEN <<Cell("", m.date, ""), Cell("", m.response_time, ""),
           Cell("", Commas(m.requests), ""),
           Cell("", FloatStr(m.error_rate), "%")>>
    ELSE <<Cell("", m.date, ""), Cell("", Commas(m.active_users), ""),
           Cell("", Commas(m.page_views), ""),
           Cell("", m.avg_session_duration, "")>>

\* the keys of the row template that the point m lacks
MissingKeys(metric_type, m) ==
    {i \in 1..4 : RowKeys(metric_type)[i] \notin DOMAIN m}

\* the points whose row the template cannot build
BadPoints(metric_type, metrics) ==
    {k \in 1..Len(metrics) : MissingKeys(metric_type, metrics[k]) # {}}

Least(S) == CHOOSE i \in S : \A j \in S : i <= j

\* the loop running over reversed(metrics)
RenderRowsReversed(metric_type, metrics) ==
    IF BadPoints(metric_type, metrics) # {}
    THEN Raise("KeyError",
               <<RowKeys(metric_type)[
                   Least(MissingKeys(metric_type,
                       metrics[Least(BadPoints(metric_type, metrics))]))]>>)
    ELSE Ok([k \in 1..Len(metrics) |->
                RowTemplate(metric_type, metrics[Len(metrics) + 1 - k])])

\* for metric in metrics: html += row_template(metric); the first point
\* lacking a key raises KeyError(key)
RenderRows(metric_type, metrics) ==
    IF BadPoints(metric_type, metrics) # {}
    THEN Raise("KeyError",
               <<RowKeys(metric_type)[
                   Least(MissingKeys(metric_type,
                       metrics[Least(BadPoints(metric_type, metrics))]))]>>)
    ELSE Ok([k \in 1..Len(metrics) |-> RowTemplate(metric_type, metrics[k])])

MetricsDocument(metric_type, body) ==
    IF body.exc # "none" THEN body
    ELSE Ok([widget  |-> "metrics_table",
             title   |-> Title(metric_type.s),
             headers |-> Headers(metric_type),
             rows    |-> body.val])

\* render_metrics_table reading metrics[0] before the loop: IndexError on
\* an empty list
render_metrics_table_first(metrics, metric_type) ==
    IF ~IsStr(metric_type)
    THEN Raise("AttributeError",
               <<metric_type.t, " object has no attribute 'title'">>)
    ELSE IF metrics = <<>>
    THEN Raise("IndexError", <<"list index out of range">>)
    ELSE MetricsDocument(metric_type, RenderRows(metric_type, metrics))

render_metrics_table(metrics, metric_type) ==
    IF ~IsStr(metric_type)
    THEN Raise("AttributeError",
               <<metric_type.t, " object has no attribute 'title'">>)
    ELSE MetricsDocument(metric_type, RenderRows(metric_type, metrics))

render_user_card(user) ==
    Ok([widget |-> "user_card",
        avatar |-> user.avatar,
        alt    |-> user.name,
        name   |-> user.name,
        role   |-> user.role,
        email  |-> user.email,
        id     |-> user.id,
        joined |-> user.joined,
        status |-> Upper(user.status)])

\* render_dashboard taking the dark colours for "dark" alone
render_dashboard_light_default(data, theme) ==
    Ok([widget     |-> "dashboard",
        bg_color   |-> IF theme = StrV("dark") THEN "#1a1a1a" ELSE "#ffffff",
        text_color |-> IF theme = StrV("dark") THEN "#f0f0f0" ELSE "#333333",
        card_bg    |-> IF theme = StrV("dark") THEN "#2d2d2d" ELSE "#f8f9fa",
        timestamp  |-> data.timestamp,
        stats      |-> <<Cell("", data.stats.total_users, ""),
                         Cell("", data.stats.active_sessions, ""),
                         Cell("$", Commas(data.stats.revenue_today), ""),
                         Cell("", data.stats.orders_today, "")>>,
        activity   |-> [i \in 1..Len(data.recent_activity) |->
                           <<data.recent_activity[i].user,
                             data.recent_activity[i].action,
                             data.recent_activity[i].time>>],
        alerts     |-> [i \in 1..Len(data.alerts) |->
                           <<data.alerts[i].level, data.alerts[i].message>>]])

\* render_dashboard leaving the alerts out of the dark document
render_dashboard_dark_bare(data, theme) ==
    Ok([widget     |-> "dashboard",
        bg_color   |-> IF theme = StrV("light") THEN "#ffffff" ELSE "#1a1a1a",
        text_color |-> IF theme = StrV("light") THEN "#333333" ELSE "#f0f0f0",
        card_bg    |-> IF theme = StrV("light") THEN "#f8f9fa" ELSE "#2d2d2d",
        timestamp  |-> data.timestamp,
        stats      |-> <<Cell("", data.stats.total_users, ""),
                         Cell("", data.stats.active_sessions, ""),
                         Cell("$", Commas(data.stats.revenue_today), ""),
                         Cell("", data.stats.orders_today, "")>>,
        activity   |-> [i \in 1..Len(data.recent_activity) |->
                           <<data.recent_activity[i].user,
                             data.recent_activity[i].action,
                             data.recent_activity[i].time>>],
        alerts     |-> IF theme = StrV("light")
                       THEN [i \in 1..Len(data.alerts) |->
                               <<data.alerts[i].level, data.alerts[i].message>>]
                       ELSE <<>>])

render_dashboard(data, theme) ==
    Ok([widget     |-> "dashboard",
        bg_color   |-> IF theme = StrV("light") THEN "#ffffff" ELSE "#1a1a1a",
        text_color |-> IF theme = StrV("light") THEN "#333333" ELSE "#f0f0f0",
        card_bg    |-> IF theme = StrV("light") THEN "#f8f9fa" ELSE "#2d2d2d",
        timestamp  |-> data.timestamp,
        stats      |-> <<Cell("", data.stats.total_users, ""),
                         Cell("", data.stats.active_sessions, ""),
                         Cell("$", Commas(data.stats.revenue_today), ""),
                         Cell("", data.stats.orders_today, "")>>,
        activity   |-> [i \in 1..Len(data.recent_activity) |->
                           <<data.recent_activity[i].user,
                             data.recent_activity[i].action,
                             data.recent_activity[i].time>>],
        alerts     |-> [i \in 1..Len(data.alerts) |->
                           <<data.alerts[i].level, data.alerts[i].message>>]])

(***************************************************************************)
(* Requests, responses and the record of the calls one invocation makes.  *)
(***************************************************************************)
NoDoc == [widget |-> "none"]

\* what a handler hands back to its transport; kind "fault" is an
\* exception that left the handler
Response(transport, kind, status, label, html, error) ==
    [transport |-> transport, kind |-> kind, status |-> status,
     label |-> label, html |-> html, error |-> error]

Fault(transport, exc) == Response(transport, "fault", 0, <<>>, NoDoc, <<exc>>)

\* a call of a store function with its outcome, and a call of a renderer
StoreCall(fn, args, out) == [fn |-> fn, args |-> args, out |-> out]
RenderCall(fn, args) == [fn |-> fn, args |-> args]

\* the outcome of a call without the generator's state
Outcome(r) == IF r.exc = "none" THEN Ok(r.val) ELSE Raise(r.exc, r.msg)

\* the result of a try body: returned value or exception, generator state
\* after it, and the store and renderer calls it made
Done(val, s, store, render) ==
    [exc |-> "none", val |-> val, rng |-> s, store |-> store, render |-> render]
Thrown(exc, msg, s, store, render) ==
    [exc |-> exc, msg |-> msg, rng |-> s, store |-> store, render |-> render]

\* isinstance(e, cls) for the exception classes that occur
IsInstance(exc, cls) == cls = "Exception" \/ cls = exc

(***************************************************************************)
(* The three operations as both transports run them: the store call,     *)
(* then the renderer call on what the store returned.                     *)
(***************************************************************************)
DashboardRendered(theme, data, html) ==
    Done(html.val, data.rng,
         <<StoreCall("get_dashboard_data", <<>>, Outcome(data))>>,
         <<RenderCall("render_dashboard", <<data.val, theme>>)>>)

DashboardFetched(theme, data) ==
    DashboardRendered(theme, data, render_dashboard(data.val, theme))

DashboardBody(theme, db, s, today) ==
    DashboardFetched(theme, get_dashboard_data(db, s, today))

\* the lookup made a second time when it raised
UserFetchedRetry(user_id, s, user_data) ==
    IF user_data.exc # "none"
    THEN Thrown(user_data.exc, user_data.msg, s,
                <<StoreCall("get_user_data", <<user_id>>, user_data),
                  StoreCall("get_user_data", <<user_id>>, user_data)>>, <<>>)
    ELSE Done(render_user_card(user_data.val).val, s,
              <<StoreCall("get_user_data", <<user_id>>, user_data)>>,
              <<RenderCall("render_user_card", <<user_data.val>>)>>)

UserFetched(user_id, s, user_data) ==
    IF user_data.exc # "none"
    THEN Thrown(user_data.exc, user_data.msg, s,
                <<StoreCall("get_user_data", <<user_id>>, user_data)>>, <<>>)
    ELSE Done(render_user_card(user_data.val).val, s,
              <<StoreCall("get_user_data", <<user_id>>, user_data)>>,
              <<RenderCall("render_user_card", <<user_data.val>>)>>)

UserBody(user_id, db, s) == UserFetched(user_id, s, get_user_data(db, user_id))

MetricsRendered(metric_type, limit, metrics, html) ==
    IF html.exc # "none"
    THEN Thrown(html.exc, html.msg, metrics.rng,
                <<StoreCall("get_metrics_data", <<metric_type, limit>>,
                            Outcome(metrics))>>,
                <<RenderCall("render_metrics_table",
                             <<metrics.val, metric_type>>)>>)
    ELSE Done(html.val, metrics.rng,
              <<StoreCall("get_metrics_data", <<metric_type, limit>>,
                          Outcome(metrics))>>,
              <<RenderCall("render_metrics_table",
                           <<metrics.val, metric_type>>)>>)

MetricsFetched(metric_type, limit, metrics) ==
    IF metrics.exc # "none"
    THEN Thrown(metrics.exc, metrics.msg, metrics.rng,
                <<StoreCall("get_metrics_data", <<metric_type, limit>>,
                            Outcome(metrics))>>, <<>>)
    ELSE MetricsRendered(metric_type, limit, metrics,
                         render_metrics_table(metrics.val, metric_type))

MetricsBody(metric_type, limit, s, today) ==
    MetricsFetched(metric_type, limit,
                   get_metrics_data(metric_type, limit, s, today))

\* what a handler's invocation comes to: the response, the generator's
\* state after it and the calls made
Out(response, b) ==
    [resp |-> response, rng |-> b.rng, store |-> b.store, render |-> b.render]

(***************************************************************************)
(* server.py: handle_call_tool                                            *)
(***************************************************************************)
NoArgs ==
    [theme |-> Absent, user_id |-> Absent, metric_type |-> Absent,
     limit |-> Absent]

\* the text returned on success: the label line and the document
Labelled(label, b) ==
    IF b.exc # "none" THEN b
    ELSE [b EXCEPT !.val = [label |-> label, html |-> b.val]]

MetricsLabel(metric_type) ==
    IF IsStr(metric_type)
    THEN <<"Metrics Table (", Title(metric_type.s), ")">>
    ELSE <<>>

\* handle_list_tools(): the descriptors' names, properties (type, enum,
\* default) and required parameters; the descriptions are left out
handle_list_tools ==
    <<[name |-> "get_dynamic_dashboard",
       properties |-> [theme |-> [type |-> "string",
                                  enum |-> <<"light", "dark">>,
                                  default |-> StrV("light")]],
       required |-> <<>>],
      [name |-> "get_user_profile",
       properties |-> [user_id |-> [type |-> "string"]],
       required |-> <<"user_id">>],
      [name |-> "get_metrics_table",
       properties |-> [metric_type |-> [type |-> "string",
                                        enum |-> <<"sales", "performance",
                                                   "engagement">>,
                                        default |-> StrV("sales")],
                       limit |-> [type |-> "integer",
                                  default |-> IntV(10)]],
       required |-> <<>>]>>

\* the try block with the dashboard branch as the final else
McpTryFallThrough(name, arguments, db, s, today) ==
    IF name = "get_user_profile" THEN
        IF Falsy(arguments.user_id)
        THEN Thrown("ValueError", <<"user_id is required">>, s, <<>>, <<>>)
        ELSE Labelled(<<"User Profile for ", arguments.user_id>>,
                      UserBody(arguments.user_id, db, s))
    ELSE IF name = "get_metrics_table" THEN
        Labelled(MetricsLabel(Get(arguments, "metric_type", StrV("sales"))),
                 MetricsBody(Get(arguments, "metric_type", StrV("sales")),
                             Get(arguments, "limit", IntV(10)), s, today))
    ELSE
        Labelled(<<"Dynamic Dashboard (Theme: ",
                   Get(arguments, "theme", StrV("light")), ")">>,
                 DashboardBody(Get(arguments, "theme", StrV("light")),
                               db, s, today))

\* the try block, lines 100-143; val is [label, html]
McpTry(name, arguments, db, s, today) ==
    IF name = "get_dynamic_dashboard" THEN
        Labelled(<<"Dynamic Dashboard (Theme: ",
                   Get(arguments, "theme", StrV("light")), ")">>,
                 DashboardBody(Get(arguments, "theme", StrV("light")),
                               db, s, today))
    ELSE IF name = "get_user_profile" THEN
        IF Falsy(arguments.user_id)
        THEN Thrown("ValueError", <<"user_id is required">>, s, <<>>, <<>>)
        ELSE Labelled(<<"User Profile for ", arguments.user_id>>,
                      UserBody(arguments.user_id, db, s))
    ELSE IF name = "get_metrics_table" THEN
        Labelled(MetricsLabel(Get(arguments, "metric_type", StrV("sales"))),
                 MetricsBody(Get(arguments, "metric_type", StrV("sales")),
                             Get(arguments, "limit", IntV(10)), s, today))
    ELSE Thrown("ValueError", <<"Unknown tool: ", name>>, s, <<>>, <<>>)

\* handle_call_tool catching ValueError only
McpExceptValueError(b) ==
    IF b.exc = "none"
    THEN Response("mcp", "ok", 0, b.val.label, b.val.html, <<>>)
    ELSE IF IsInstance(b.exc, "ValueError")
    THEN Response("mcp", "error", 0, <<>>, NoDoc, <<"Error: ">> \o b.msg)
    ELSE Fault("mcp", b.exc)

\* except Exception as e, lines 145-152, around the try block's result b
McpExcept(b) ==
    IF b.exc = "none"
    THEN Response("mcp", "ok", 0, b.val.label, b.val.html, <<>>)
    ELSE IF IsInstance(b.exc, "Exception")
    THEN Response("mcp", "error", 0, <<>>, NoDoc, <<"Error: ">> \o b.msg)
    ELSE Fault("mcp", b.exc)

McpOut(b) == Out(McpExcept(b), b)

\* lines 97-98
NormArgs(arguments) ==
    IF arguments = Absent \/ arguments = NoArgs THEN NoArgs ELSE arguments

\* handle_call_tool(name, arguments): [resp, rng, store, render]
handle_call_tool(name, arguments, db, s, today) ==
    McpOut(McpTry(name, NormArgs(arguments), db, s, today))

\* handle_call_tool as a coroutine: it may be suspended at each await
\* (lines 103, 118, 132), that is, before and after the store function
\* runs.  Whether the try block reaches its await:
ReachesAwait(name, arguments) ==
    /\ name \in {"get_dynamic_dashboard", "get_user_profile",
                 "get_metrics_table"}
    /\ name = "get_user_profile" => ~Falsy(arguments.user_id)

\* the awaited store function, run with generator state s on day today
Awaited(name, arguments, db, s, today) ==
    IF name = "get_dynamic_dashboard" THEN get_dashboard_data(db, s, today)
    ELSE IF name = "get_user_profile"
    THEN get_user_data(db, arguments.user_id)
    ELSE get_metrics_data(Get(arguments, "metric_type", StrV("sales")),
                          Get(arguments, "limit", IntV(10)), s, today)

\* the generator's state after the awaited function returned `data`
RngAfter(data, s) == IF "rng" \in DOMAIN data THEN data.rng ELSE s

\* the try block from the await on, the store function having returned
\* `data`
McpResume(name, arguments, s, data) ==
    IF name = "get_dynamic_dashboard" THEN
        Labelled(<<"Dynamic Dashboard (Theme: ",
                   Get(arguments, "theme", StrV("light")), ")">>,
                 DashboardFetched(Get(arguments, "theme", StrV("light")),
                                  data))
    ELSE IF name = "get_user_profile" THEN
        Labelled(<<"User Profile for ", arguments.user_id>>,
                 UserFetched(arguments.user_id, s, data))
    ELSE
        Labelled(MetricsLabel(Get(arguments, "metric_type", StrV("sales"))),
                 MetricsFetched(Get(arguments, "metric_type", StrV("sales")),
                                Get(arguments, "limit", IntV(10)), data))

\* the locals of every coroutine kept in one place: a coroutine resumes
\* with what the latest suspended one fetched
LocalShared(ts, t) ==
    ts[CHOOSE u \in DOMAIN ts : ts[u].pc = "fetched"].data

\* the local (data, user_data, metrics) coroutine t resumes with: its own
Local(ts, t) == ts[t].data

(***************************************************************************)
(* server_http.py: the three API route handlers.  A request is           *)
(* [query, match_info], every value a str or absent.                      *)
(***************************************************************************)
HttpOk(html) == Response("http", "ok", 200, <<>>, html, <<>>)
HttpError(status, msg) == Response("http", "error", status, <<>>, NoDoc, msg)

\* except Exception, lines 168-173 and 223-228, around the try block's
\* result b
HttpExcept(b) ==
    IF b.exc = "none" THEN HttpOk(b.val)
    ELSE IF IsInstance(b.exc, "Exception") THEN HttpError(500, b.msg)
    ELSE Fault("http", b.exc)

HttpOut(b) == Out(HttpExcept(b), b)

\* get_dashboard with 'dark' for the default theme
get_dashboard_default_dark(request, db, s, today) ==
    HttpOut(DashboardBody(Get(request.query, "theme", StrV("dark")),
                          db, s, today))

get_dashboard(request, db, s, today) ==
    HttpOut(DashboardBody(Get(request.query, "theme", StrV("light")),
                          db, s, today))

\* get_user_profile without its except ValueError clause
UserExceptNoValueError(b) ==
    IF b.exc = "none" THEN HttpOk(b.val)
    ELSE IF IsInstance(b.exc, "Exception") THEN HttpError(500, b.msg)
    ELSE Fault("http", b.exc)

\* except ValueError / except Exception, lines 193-203
UserExcept(b) ==
    IF b.exc = "none" THEN HttpOk(b.val)
    ELSE IF IsInstance(b.exc, "ValueError") THEN HttpError(404, b.msg)
    ELSE IF IsInstance(b.exc, "Exception") THEN HttpError(500, b.msg)
    ELSE Fault("http", b.exc)

UserOut(b) == Out(UserExcept(b), b)

get_user_profile(request, db, s) ==
    IF Falsy(request.match_info.user_id)
    THEN [resp |-> HttpError(400, <<"user_id is required">>), rng |-> s,
          store |-> <<>>, render |-> <<>>]
    ELSE UserOut(UserBody(request.match_info.user_id, db, s))

\* the limit check with >= for >
ValidateLimitStrict(limit) == IF limit < 1 \/ limit >= 30 THEN 10 ELSE limit

\* lines 212-214
ValidateLimit(limit) == IF limit < 1 \/ limit > 30 THEN 10 ELSE limit

\* lines 210-217, `parsed` being the outcome of int(...)
MetricsParsed(metric_type, parsed, s, today) ==
    IF parsed.exc # "none"
    THEN Thrown(parsed.exc, parsed.msg, s, <<>>, <<>>)
    ELSE MetricsBody(metric_type, IntV(ValidateLimit(parsed.val)), s, today)

get_metrics(request, s, today) ==
    HttpOut(MetricsParsed(
        Get(request.query, "type", StrV("sales")),
        ParseInt(Get(request.query, "limit", StrV(<<"1", "0">>)).s),
        s, today))

(***************************************************************************)
(* test_local.py: the store and the renderer called directly, with no    *)
(* handler around them; an exception leaves the test function.           *)
(***************************************************************************)
DirectResponse(b) ==
    IF b.exc = "none" THEN Response("direct", "ok", 0, <<>>, b.val, <<>>)
    ELSE Fault("direct", b.exc)

Direct(b) == Out(DirectResponse(b), b)

test_dashboard(db, s, today) ==
    Direct(DashboardBody(StrV("light"), db, s, today))

test_user_profile(db, s) == Direct(UserBody(StrV("user_001"), db, s))

test_metrics_table(s, today) ==
    Direct(MetricsBody(StrV("sales"), IntV(10), s, today))

(***************************************************************************)
(* The inputs the environment may send.                                   *)
(***************************************************************************)
Themes ==
    {Absent, StrV("light"), StrV("dark"), StrV("blue"), StrV(""),
     StrV("Light")}

UserIds ==
    {Absent, StrV(""), StrV("user_001"), StrV("user_002"), StrV("user_003"),
     StrV("user_004"), StrV("USER_001")}

MetricTypes == {Absent, StrV("revenue")} \cup Categories

\* 30 is the facade's upper limit and 10 the default, which an absent
\* limit stands for
LimitInts == {-1, 0, 1, 3, 30} \cup (31..(30 + MaxOver))

NotANumber == StrV(<<"a", "b", "c">>)

\* JSON values of the MCP arguments
McpLimits == {Absent, NotANumber} \cup {IntV(n) : n \in LimitInts}

\* query-string values
HttpLimits == {Absent, NotANumber} \cup {StrV(PyStr(n)) : n \in LimitInts}

\* the (category, limit) pairs of the metrics requests: every given
\* category with every limit, and the omitted category with the limit
\* omitted or small
MetricsInputs(limits, small) ==
    {<<m, l>> : m \in MetricTypes \ {Absent}, l \in limits}
    \cup {<<Absent, l>> : l \in {Absent, small}}

ToolNames == {"get_dynamic_dashboard", "get_user_profile", "get_metrics_table"}

McpRequests ==
    {[name |-> n, arguments |-> Absent] : n \in ToolNames \cup {"get_weather"}}
    \cup {[name |-> "get_dynamic_dashboard",
           arguments |-> [NoArgs EXCEPT !.theme = t]] : t \in Themes}
    \cup {[name |-> "get_user_profile",
           arguments |-> [NoArgs EXCEPT !.user_id = u]] : u \in UserIds}
    \cup {[name |-> "get_metrics_table",
           arguments |-> [NoArgs EXCEPT !.metric_type = ml[1],
                                        !.limit = ml[2]]] :
             ml \in MetricsInputs(McpLimits, IntV(3))}
    \cup {[name |-> "get_metrics_table",
           arguments |-> [NoArgs EXCEPT !.metric_type = IntV(7)]]}
    \cup {[name |-> "get_weather",
           arguments |-> [NoArgs EXCEPT !.user_id = StrV("user_001")]]}
    \cup {[name |-> "get_dynamic_dashboard",
           arguments |-> [NoArgs EXCEPT !.theme = IntV(7)]]}

HttpRequest(theme, user_id, type, limit) ==
    [query |-> [theme |-> theme, type |-> type, limit |-> limit],
     match_info |-> [user_id |-> user_id]]

\* the clock's initial values: 1 March 2024 and 1 January 2025
StartDays == {61, 367}

\* the coroutines of handle_call_tool the event loop may hold at once
TaskIds == {"task_a", "task_b"}

Idle == [pc |-> "idle"]

\* the tool calls that run concurrently
ConcRequests ==
    {[name |-> "get_dynamic_dashboard",
      arguments |-> [NoArgs EXCEPT !.theme = StrV("dark")]],
     [name |-> "get_user_profile",
      arguments |-> [NoArgs EXCEPT !.user_id = StrV("user_002")]],
     [name |-> "get_user_profile",
      arguments |-> [NoArgs EXCEPT !.user_id = StrV("user_004")]],
     [name |-> "get_user_profile", arguments |-> Absent],
     [name |-> "get_metrics_table",
      arguments |-> [NoArgs EXCEPT !.metric_type = StrV("sales"),
                                   !.limit = IntV(3)]]}

(***************************************************************************)
(* State.                                                                  *)
(***************************************************************************)
VARIABLES
    users,          \* USERS_DB, the seed table
    rng,            \* state of the module-level random generator
    now,            \* the wall clock, a day ordinal
    ticks,          \* days the clock has advanced
    call,           \* the last invocation and the state it started in
    resp,           \* what the last invocation returned
    store_calls,    \* the store calls the last invocation made
    render_calls,   \* the renderer calls the last invocation made
    tasks           \* the handle_call_tool coroutines in flight

vars ==
    <<users, rng, now, ticks, call, resp, store_calls, render_calls, tasks>>

NoCall == [transport |-> "none"]

Init ==
    /\ users = USERS_DB
    /\ rng \in 0..(RngStates - 1)
    /\ now \in StartDays
    /\ ticks = 0
    /\ call = NoCall
    /\ resp = Response("none", "none", 0, <<>>, NoDoc, <<>>)
    /\ store_calls = <<>>
    /\ render_calls = <<>>
    /\ tasks = [t \in TaskIds |-> Idle]

\* render_user_card writing the upper-cased status back into the dict
UserAfterRenderUppercased(user) == [user EXCEPT !.status = Upper(@)]

\* the dict render_user_card was handed, after the call: the function
\* only reads it
UserAfterRender(user) == user

\* get_user_data returns the stored dict itself, not a copy, so the
\* renderer is handed the table's own record: the table after the
\* renderer calls `render` of one invocation
TableAfter(db, render) ==
    [i \in DOMAIN db |->
        IF \E k \in 1..Len(render) :
              /\ render[k].fn = "render_user_card"
              /\ render[k].args[1] = db[i]
        THEN UserAfterRender(db[i])
        ELSE db[i]]

\* an invocation `c` returned `out`
Returns(c, out) ==
    /\ call' = c
    /\ resp' = out.resp
    /\ rng' = out.rng
    /\ store_calls' = out.store
    /\ render_calls' = out.render
    /\ users' = TableAfter(users, out.render)
    /\ UNCHANGED <<now, ticks, tasks>>

Invocation(transport, name, args) ==
    [transport |-> transport, name |-> name, args |-> args,
     rng |-> rng, today |-> now]

\* tools/list: the descriptors are returned, nothing else happens
McpListTools ==
    /\ call' = Invocation("mcp", "tools/list", Absent)
    /\ resp' = [transport |-> "mcp", kind |-> "tools", status |-> 0,
                label |-> <<>>, html |-> NoDoc, error |-> <<>>,
                tools |-> handle_list_tools]
    /\ store_calls' = <<>>
    /\ render_calls' = <<>>
    /\ UNCHANGED <<users, rng, now, ticks, tasks>>

McpCallTool ==
    \E r \in McpRequests :
        Returns(Invocation("mcp", r.name, r.arguments),
                handle_call_tool(r.name, r.arguments, users, rng, now))

HttpGetDashboard ==
    \E t \in Themes :
        Returns(Invocation("http", "get_dashboard",
                           HttpRequest(t, Absent, Absent, Absent)),
                get_dashboard(HttpRequest(t, Absent, Absent, Absent),
                              users, rng, now))

HttpGetUserProfile ==
    \E u \in UserIds :
        Returns(Invocation("http", "get_user_profile",
                           HttpRequest(Absent, u, Absent, Absent)),
                get_user_profile(HttpRequest(Absent, u, Absent, Absent),
                                 users, rng))

HttpGetMetrics ==
    \E ml \in MetricsInputs(HttpLimits, StrV(<<"3">>)) :
        Returns(Invocation("http", "get_metrics",
                           HttpRequest(Absent, Absent, ml[1], ml[2])),
                get_metrics(HttpRequest(Absent, Absent, ml[1], ml[2]),
                            rng, now))

TestDashboard ==
    Returns(Invocation("direct", "test_dashboard", <<>>),
            test_dashboard(users, rng, now))

TestUserProfile ==
    Returns(Invocation("direct", "test_user_profile", <<>>),
            test_user_profile(users, rng))

TestMetricsTable ==
    Returns(Invocation("direct", "test_metrics_table", <<>>),
            test_metrics_table(rng, now))

\* midnight passes
Tick ==
    /\ ticks < MaxTicks
    /\ now' = now + 1
    /\ ticks' = ticks + 1
    /\ UNCHANGED <<users, rng, call, resp, store_calls, render_calls, tasks>>

Next ==
    \/ McpListTools
    \/ McpCallTool
    \/ HttpGetDashboard
    \/ HttpGetUserProfile
    \/ HttpGetMetrics
    \/ TestDashboard
    \/ TestUserProfile
    \/ TestMetricsTable
    \/ Tick

Spec == Init /\ [][Next]_vars

(***************************************************************************)
(* Several handle_call_tool coroutines in flight on one event loop: a    *)
(* coroutine runs from one await to the next without interruption, and   *)
(* between two awaits of one coroutine any other may run.                *)
(***************************************************************************)
\* the dispatcher starts a coroutine; it runs to its await, or to its
\* return when the try block raises before any await
TaskCall(t) ==
    /\ tasks[t].pc = "idle"
    /\ \E r \in ConcRequests :
          tasks' = [tasks EXCEPT ![t] =
              IF ReachesAwait(r.name, NormArgs(r.arguments))
              THEN [pc |-> "called", name |-> r.name,
                    arguments |-> r.arguments]
              ELSE [pc |-> "returned", name |-> r.name,
                    arguments |-> r.arguments, rng |-> rng, today |-> now,
                    result |-> handle_call_tool(r.name, r.arguments, users,
                                                rng, now).resp]]
    /\ UNCHANGED <<users, rng, now, ticks, call, resp, store_calls,
                   render_calls>>

\* the awaited store function runs
TaskFetch(t) ==
    /\ tasks[t].pc = "called"
    /\ tasks' = [tasks EXCEPT ![t] =
          [pc |-> "fetched", name |-> tasks[t].name,
           arguments |-> tasks[t].arguments, rng |-> rng, today |-> now,
           data |-> Awaited(tasks[t].name, NormArgs(tasks[t].arguments),
                            users, rng, now)]]
    /\ rng' = RngAfter(Awaited(tasks[t].name, NormArgs(tasks[t].arguments),
                               users, rng, now), rng)
    /\ UNCHANGED <<users, now, ticks, call, resp, store_calls, render_calls>>

\* the coroutine resumes, renders and returns
TaskReturn(t) ==
    /\ tasks[t].pc = "fetched"
    /\ tasks' = [tasks EXCEPT ![t] =
          [pc |-> "returned", name |-> tasks[t].name,
           arguments |-> tasks[t].arguments, rng |-> tasks[t].rng,
           today |-> tasks[t].today,
           result |-> McpExcept(McpResume(tasks[t].name,
                                          NormArgs(tasks[t].arguments),
                                          tasks[t].rng, Local(tasks, t)))]]
    /\ users' = TableAfter(users,
                           McpResume(tasks[t].name,
                                     NormArgs(tasks[t].arguments),
                                     tasks[t].rng, Local(tasks, t)).render)
    /\ UNCHANGED <<rng, now, ticks, call, resp, store_calls, render_calls>>

\* the transport sends the result
TaskReply(t) ==
    /\ tasks[t].pc = "returned"
    /\ tasks' = [tasks EXCEPT ![t] = Idle]
    /\ UNCHANGED <<users, rng, now, ticks, call, resp, store_calls,
                   render_calls>>

ConcNext ==
    \/ \E t \in TaskIds : TaskCall(t)
    \/ \E t \in TaskIds : TaskFetch(t)
    \/ \E t \in TaskIds : TaskReturn(t)
    \/ \E t \in TaskIds : TaskReply(t)
    \/ Tick

ConcSpec == Init /\ [][ConcNext]_vars

(***************************************************************************)
(* Vocabulary of the properties.                                          *)
(***************************************************************************)
\* the last invocation was one of the three operations
IsFacadeCall ==
    /\ call.transport \in {"mcp", "http"}
    /\ call.name # "tools/list"

IsMetricsCall ==
    \/ call.transport = "mcp" /\ call.name = "get_metrics_table"
    \/ call.transport = "http" /\ call.name = "get_metrics"

\* the category and the limit as the last metrics request gave them
ReqType ==
    IF call.transport = "mcp" THEN NormArgs(call.args).metric_type
    ELSE call.args.query.type

ReqLimit ==
    IF call.transport = "mcp" THEN NormArgs(call.args).limit
    ELSE call.args.query.limit

\* the last metrics request asks for n rows
RequestsLimit(n) ==
    IF call.transport = "mcp" THEN ReqLimit = IntV(n)
    ELSE ReqLimit = StrV(PyStr(n))

SeededIds == {"user_001", "user_002", "user_003"}

\* the header cells the specification fixes for each category
ExpectedHeaders(category) ==
    IF category = StrV("sales")
    THEN <<"Date", "Revenue", "Orders", "Avg Order Value">>
    ELSE IF category = StrV("performance")
    THEN <<"Date", "Response Time (ms)", "Requests", "Error Rate (%)">>
    ELSE <<"Date", "Active Users", "Page Views", "Avg Session (s)">>

\* the calendar day after <<y, m, d>>
NextDay(date) ==
    IF date[3] < DaysInMonth(date[1], date[2])
    THEN <<date[1], date[2], date[3] + 1>>
    ELSE IF date[2] < 12 THEN <<date[1], date[2] + 1, 1>>
    ELSE <<date[1] + 1, 1, 1>>

DateBefore(a, b) ==
    \/ a[1] < b[1]
    \/ a[1] = b[1] /\ a[2] < b[2]
    \/ a[1] = b[1] /\ a[2] = b[2] /\ a[3] < b[3]

\* the store calls of the last invocation to get_metrics_data that asked
\* for an enumerated category and an integer count
MetricsStoreCalls ==
    {k \in 1..Len(store_calls) :
        /\ store_calls[k].fn = "get_metrics_data"
        /\ store_calls[k].args[1] \in Categories
        /\ IsInt(store_calls[k].args[2])}

UserStoreCalls ==
    {k \in 1..Len(store_calls) : store_calls[k].fn = "get_user_data"}

(***************************************************************************)
(* C1. A metrics request, on either transport, that names a category      *)
(* other than sales, performance, engagement gets an error result and    *)
(* reaches neither the store nor the renderer.                           *)
(* Fails: neither handler checks the category.                           *)
(***************************************************************************)
C1_UnknownCategoryRejected ==
    (IsMetricsCall /\ ReqType # Absent /\ ReqType \notin Categories)
        => /\ resp.kind = "error"
           /\ store_calls = <<>>
           /\ render_calls = <<>>

(***************************************************************************)
(* C2. On every transport the count a metrics request hands to the store *)
(* is an integer in 1..30 and a returned table has at most 30 body rows. *)
(* Fails: handle_call_tool passes the limit on unchecked.                *)
(***************************************************************************)
C2_LimitBounded ==
    IsMetricsCall =>
        /\ \A k \in 1..Len(store_calls) :
              /\ IsInt(store_calls[k].args[2])
              /\ store_calls[k].args[2].n \in 1..30
        /\ resp.kind = "ok" => Len(resp.html.rows) <= 30

(***************************************************************************)
(* C3. get_user_data returns, for each seeded id, the record with that   *)
(* id and a non-empty name, and for any other id raises the not-found    *)
(* error and returns no record.                                          *)
(***************************************************************************)
C3_GetUser ==
    \A k \in UserStoreCalls :
        LET id  == store_calls[k].args[1].s
            out == store_calls[k].out
        IN  /\ id \in SeededIds =>
                /\ out.exc = "none"
                /\ out.val.id = id
                /\ out.val.name # ""
            /\ id \notin SeededIds =>
                /\ out.exc = "ValueError"
                /\ out.msg = <<"User ", id, " not found">>
                /\ "val" \notin DOMAIN out

C3_Witness ==
    /\ call.transport = "http"
    /\ UserStoreCalls # {}
    /\ store_calls[1].args[1] = StrV("user_003")
    /\ store_calls[1].out.exc = "none"
    /\ store_calls[1].out.val.id = "user_003"

(***************************************************************************)
(* C4. Whatever the arguments, a handler of either transport returns a   *)
(* success payload (a document, no error) or an error payload (an error  *)
(* message, no document); no exception of the store or the renderer      *)
(* leaves the handler.                                                   *)
(***************************************************************************)
C4_NoFaultEscapes ==
    IsFacadeCall =>
        /\ resp.kind \in {"ok", "error"}
        /\ resp.kind = "ok" => resp.html # NoDoc /\ resp.error = <<>>
        /\ resp.kind = "error" => resp.html = NoDoc /\ resp.error # <<>>

\* the renderer raised (metric_type is no string) and the handler
\* answered with an error payload
C4_Witness ==
    /\ call.transport = "mcp"
    /\ render_calls # <<>>
    /\ resp.kind = "error"

(***************************************************************************)
(* C5. The same operation on the same logical inputs, from the same      *)
(* store data, clock and random draws, has the same outcome on both      *)
(* transports: success with the same document, or the same kind of       *)
(* error.  Stated of every HTTP invocation against handle_call_tool run  *)
(* on the same inputs from the state that invocation started in.         *)
(* Fails for a limit outside 1..30: only get_metrics replaces it by 10.  *)
(***************************************************************************)
\* the JSON value of a query-string limit: the integer it writes, or the
\* string itself when it writes none
McpLimitOf(l) ==
    IF l = Absent THEN Absent
    ELSE IF \E n \in LimitInts : l = StrV(PyStr(n))
    THEN IntV(CHOOSE n \in LimitInts : l = StrV(PyStr(n)))
    ELSE l

\* the MCP request with the inputs of the last HTTP request
McpTwinName ==
    IF call.name = "get_dashboard" THEN "get_dynamic_dashboard"
    ELSE IF call.name = "get_user_profile" THEN "get_user_profile"
    ELSE "get_metrics_table"

McpTwinArgs ==
    [theme       |-> call.args.query.theme,
     user_id     |-> call.args.match_info.user_id,
     metric_type |-> call.args.query.type,
     limit       |-> McpLimitOf(call.args.query.limit)]

McpTwin ==
    handle_call_tool(McpTwinName, McpTwinArgs, users, call.rng, call.today).resp

\* NotFound, InvalidArgument (a required parameter is missing) or
\* Unexpected, by the message str(e)
ErrorKind(msg) ==
    IF msg[1] = "User " THEN "NotFound"
    ELSE IF msg = <<"user_id is required">> THEN "InvalidArgument"
    ELSE "Unexpected"

SameOutcome(h, m) ==
    /\ h.kind = m.kind
    /\ h.kind = "ok" => h.html = m.html
    /\ h.kind = "error" => ErrorKind(h.error) = ErrorKind(Tail(m.error))

C5_TransportsAgree == call.transport = "http" => SameOutcome(resp, McpTwin)

(***************************************************************************)
(* C6. An HTTP response of the three API routes has status 200 exactly   *)
(* on success, 400 exactly when the required user_id is missing, 404     *)
(* exactly when a user_id is given and is not a seeded id, and 500 for   *)
(* every other failure; a limit that is no integer gives 500.            *)
(***************************************************************************)
C6_HttpStatus ==
    call.transport = "http" =>
        /\ resp.status \in {200, 400, 404, 500}
        /\ resp.status = 200 <=> resp.kind = "ok"
        /\ call.name = "get_user_profile" =>
              /\ resp.status = 400 <=> Falsy(call.args.match_info.user_id)
              /\ resp.status = 404 <=>
                    /\ ~Falsy(call.args.match_info.user_id)
                    /\ call.args.match_info.user_id.s \notin SeededIds
              /\ resp.status = 200 <=>
                    /\ ~Falsy(call.args.match_info.user_id)
                    /\ call.args.match_info.user_id.s \in SeededIds
        /\ call.name # "get_user_profile" => resp.status \in {200, 500}
        /\ (call.name = "get_metrics" /\ ReqLimit = NotANumber) =>
              resp.status = 500

C6_Witness ==
    /\ call.transport = "http"
    /\ call.name = "get_user_profile"
    /\ call.args.match_info.user_id = StrV("user_004")
    /\ resp.status = 404

(***************************************************************************)
(* C7. get_metrics_data for an enumerated category and a count >= 1      *)
(* yields points of consecutive calendar days, the last one dated the    *)
(* day of the call.                                                      *)
(* Fails: the last point is dated the day before the call.               *)
(***************************************************************************)
C7_EndsToday ==
    \A k \in MetricsStoreCalls :
        LET n   == store_calls[k].args[2].n
            pts == store_calls[k].out.val
        IN  n >= 1 =>
              /\ Len(pts) >= 1
              /\ \A i \in 1..(Len(pts) - 1) :
                    pts[i + 1].date = NextDay(pts[i].date)
              /\ pts[Len(pts)].date = Strftime(call.today)

(***************************************************************************)
(* C8. For every enumerated category and every count >= 0,               *)
(* get_metrics_data returns exactly count points, each dated the         *)
(* calendar day after its predecessor, and every numeric field lies in   *)
(* its category's range (floats in hundredths).                          *)
(***************************************************************************)
InRange(category, p) ==
    IF category = StrV("sales") THEN
        /\ p.revenue \in 5000..25000
        /\ p.orders \in 50..200
        /\ p.avg_order_value \in 8000..15000
    ELSE IF category = StrV("performance") THEN
        /\ p.response_time \in 50..500
        /\ p.requests \in 10000..50000
        /\ p.error_rate \in 10..250
    ELSE
        /\ p.active_users \in 1000..5000
        /\ p.page_views \in 50000..200000
        /\ p.avg_session_duration \in 120..600

C8_MetricsSeries ==
    \A k \in MetricsStoreCalls :
        LET n   == store_calls[k].args[2].n
            pts == store_calls[k].out.val
        IN  n >= 0 =>
              /\ store_calls[k].out.exc = "none"
              /\ Len(pts) = n
              /\ \A i \in 1..(Len(pts) - 1) :
                    /\ pts[i + 1].date = NextDay(pts[i].date)
                    /\ DateBefore(pts[i].date, pts[i + 1].date)
              /\ \A i \in 1..Len(pts) : InRange(store_calls[k].args[1], pts[i])

\* a series of 30 points or more that runs over 29 February into March
C8_Witness ==
    \E k \in MetricsStoreCalls :
        /\ store_calls[k].args[1] = StrV("sales")
        /\ Len(store_calls[k].out.val) >= 30
        /\ \E i \in 1..(Len(store_calls[k].out.val) - 1) :
              /\ store_calls[k].out.val[i].date = <<2024, 2, 29>>
              /\ store_calls[k].out.val[i + 1].date = <<2024, 3, 1>>
              /\ store_calls[k].out.val[i].revenue = 25000

(***************************************************************************)
(* C9. A metrics request, on either transport, for an enumerated         *)
(* category and a limit n in 1..30 succeeds with a table of exactly n    *)
(* body rows under that category's header cells, in order.               *)
(***************************************************************************)
C9_EndToEnd ==
    \A n \in 1..30 :
        (IsMetricsCall /\ ReqType \in Categories /\ RequestsLimit(n)) =>
            /\ resp.kind = "ok"
            /\ resp.html.widget = "metrics_table"
            /\ Len(resp.html.rows) = n
            /\ resp.html.headers = ExpectedHeaders(ReqType)

C9_Witness ==
    /\ IsMetricsCall
    /\ ReqType = StrV("performance")
    /\ RequestsLimit(3)
    /\ Len(resp.html.rows) = 3
    /\ resp.html.headers =
          <<"Date", "Response Time (ms)", "Requests", "Error Rate (%)">>

(***************************************************************************)
(* C10. get_metrics_data with count 0 returns the empty sequence for     *)
(* every category, and the metrics table rendered from an empty          *)
(* sequence is a success: no body rows under the category's header row.  *)
(***************************************************************************)
C10_EmptySeries ==
    /\ \A k \in MetricsStoreCalls :
          store_calls[k].args[2].n = 0 =>
              /\ store_calls[k].out.exc = "none"
              /\ store_calls[k].out.val = <<>>
    /\ \A k \in 1..Len(render_calls) :
          (/\ render_calls[k].fn = "render_metrics_table"
           /\ render_calls[k].args[1] = <<>>
           /\ render_calls[k].args[2] \in Categories)
              => /\ resp.kind = "ok"
                 /\ resp.html.rows = <<>>
                 /\ resp.html.headers = ExpectedHeaders(render_calls[k].args[2])

C10_Witness ==
    /\ MetricsStoreCalls # {}
    /\ store_calls[1].args = <<StrV("performance"), IntV(0)>>
    /\ store_calls[1].out.val = <<>>
    /\ render_calls # <<>>
    /\ resp.kind = "ok"
    /\ resp.html.rows = <<>>
    /\ resp.html.headers =
          <<"Date", "Response Time (ms)", "Requests", "Error Rate (%)">>

(***************************************************************************)
(* C11. For every user record, the card render_user_card produces shows  *)
(* the record's status in upper case and the record's email exactly as   *)
(* stored; checked of the records the handlers hand to the renderer and  *)
(* of records with other statuses and a mixed-case email.                *)
(***************************************************************************)
\* the upper-case spelling of each status
UpperCased(status) ==
    IF status = "active" THEN "ACTIVE"
    ELSE IF status = "inactive" THEN "INACTIVE"
    ELSE "PENDING"

SampleUsers ==
    {[USERS_DB["user_002"] EXCEPT !.status = st, !.email = em] :
        st \in {"active", "inactive", "Pending"},
        em \in {"bob@example.com", "Bob.Smith@Example.COM", ""}}

UserCardCalls ==
    {k \in 1..Len(render_calls) : render_calls[k].fn = "render_user_card"}

\* C11: the card holds the upper-cased status and the unmodified email
C11_UserCard ==
    /\ \A u \in SampleUsers :
          /\ render_user_card(u).exc = "none"
          /\ render_user_card(u).val.status = UpperCased(u.status)
          /\ render_user_card(u).val.email = u.email
    /\ \A k \in UserCardCalls :
          /\ resp.kind = "ok"
          /\ resp.html.status = UpperCased(render_calls[k].args[1].status)
          /\ resp.html.email = render_calls[k].args[1].email

C11_Witness ==
    /\ call.transport = "mcp"
    /\ UserCardCalls # {}
    /\ render_calls[1].args[1].status = "active"
    /\ resp.html.status = "ACTIVE"
    /\ resp.html.email = "carol@example.com"


(***************************************************************************)
(* C12. For one dashboard snapshot the dark and the light document       *)
(* differ in the three colours (background, text, card background) and   *)
(* in nothing else: timestamp, stat cards, activity items and alerts are *)
(* the same, in the same order.  Checked of every snapshot a handler     *)
(* hands to render_dashboard.                                            *)
(***************************************************************************)
DashboardCalls ==
    {k \in 1..Len(render_calls) : render_calls[k].fn = "render_dashboard"}

ColourFields == {"bg_color", "text_color", "card_bg"}

Colours(doc) == <<doc.bg_color, doc.text_color, doc.card_bg>>

\* C12: dark and light documents of one snapshot differ only in colours
C12_ThemesDifferInColours ==
    \A k \in DashboardCalls :
        LET snapshot == render_calls[k].args[1]
            dark     == render_dashboard(snapshot, StrV("dark")).val
            light    == render_dashboard(snapshot, StrV("light")).val
        IN  /\ DOMAIN dark = DOMAIN light
            /\ \A f \in DOMAIN dark \ ColourFields : dark[f] = light[f]
            /\ Colours(light) = <<"#ffffff", "#333333", "#f8f9fa">>
            /\ Colours(dark) = <<"#1a1a1a", "#f0f0f0", "#2d2d2d">>
            /\ render_calls[k].args[2] = StrV("dark") => resp.html = dark
            /\ render_calls[k].args[2] = StrV("light") => resp.html = light

C12_Witness ==
    /\ call.transport = "http"
    /\ DashboardCalls # {}
    /\ render_calls[1].args[2] = StrV("dark")
    /\ Colours(resp.html) = <<"#1a1a1a", "#f0f0f0", "#2d2d2d">>
    /\ Len(resp.html.stats) = 4
    /\ Len(resp.html.activity) = 3
    /\ Len(resp.html.alerts) = 2

(***************************************************************************)
(* C13. The seed table is never changed: after any sequence of           *)
(* invocations of the three operations on either transport, successful   *)
(* or failed, it holds exactly the three initial records, every field    *)
(* as at the start.                                                      *)
(***************************************************************************)
\* C13: the table equals the seed table in every reachable state
C13_SeedTableImmutable ==
    /\ DOMAIN users = SeededIds
    /\ \A i \in SeededIds : users[i] = USERS_DB[i]

\* a handler fetched a record, handed the table's own dict to the
\* renderer and returned; the table is as it was
C13_Witness ==
    /\ call.transport = "http"
    /\ UserCardCalls # {}
    /\ render_calls[1].args[1] = users["user_002"]
    /\ resp.kind = "ok"
    /\ ticks = MaxTicks
    /\ users = USERS_DB

(***************************************************************************)
(* C14. Concurrent tool invocations do not contend.  Under every         *)
(* interleaving of the coroutines in flight at their awaits, the result  *)
(* a coroutine returns is the result handle_call_tool gives when run     *)
(* alone on the same arguments with the same draws (the generator state  *)
(* and the clock its store call met), and what a suspended coroutine     *)
(* read from the table is what the table still holds: no invocation      *)
(* wrote it.  The random generator is the source of the draws.           *)
(***************************************************************************)
InFlight == {t \in TaskIds : tasks[t].pc # "idle"}

\* C14: every result equals the result of the invocation run alone
C14_NoContention ==
    \A t \in InFlight :
        /\ tasks[t].pc = "returned" =>
              tasks[t].result =
                  handle_call_tool(tasks[t].name, tasks[t].arguments, users,
                                   tasks[t].rng, tasks[t].today).resp
        /\ tasks[t].pc = "fetched" =>
              tasks[t].data =
                  Awaited(tasks[t].name, NormArgs(tasks[t].arguments), users,
                          tasks[t].rng, tasks[t].today)
        /\ users = USERS_DB

\* one coroutine has returned its table while the other, whose store
\* call ran on another day and drew from another generator state, is
\* still suspended
C14_Witness ==
    /\ tasks["task_a"].pc = "returned"
    /\ tasks["task_a"].name = "get_metrics_table"
    /\ tasks["task_a"].result.kind = "ok"
    /\ Len(tasks["task_a"].result.html.rows) = 3
    /\ tasks["task_b"].pc = "fetched"
    /\ tasks["task_b"].name = "get_dynamic_dashboard"
    /\ tasks["task_b"].today < tasks["task_a"].today
    /\ tasks["task_b"].rng # tasks["task_a"].rng

(***************************************************************************)
(* C15. A failure ends its own request and nothing else.  A failing      *)
(* invocation, on either transport, has consulted the store at most     *)
(* once and returns one error result and no document; it leaves the     *)
(* table and the random generator as it found them, so that a later     *)
(* invocation with valid inputs succeeds with the result it would have  *)
(* had from the state before the failure.                                *)
(***************************************************************************)
ValidMcpRequests ==
    {[name |-> "get_dynamic_dashboard",
      arguments |-> [NoArgs EXCEPT !.theme = StrV("dark")]],
     [name |-> "get_user_profile",
      arguments |-> [NoArgs EXCEPT !.user_id = StrV("user_001")]],
     [name |-> "get_metrics_table",
      arguments |-> [NoArgs EXCEPT !.metric_type = StrV("engagement"),
                                   !.limit = IntV(3)]]}

Failed == IsFacadeCall /\ resp.kind = "error"

\* C15: a failure is not retried and does not affect later invocations
C15_FailureTerminal ==
    Failed =>
        /\ Len(store_calls) <= 1
        /\ resp.error # <<>>
        /\ resp.html = NoDoc
        /\ \A r \in ValidMcpRequests :
              /\ handle_call_tool(r.name, r.arguments, users, rng, now)
                    .resp.kind = "ok"
              /\ handle_call_tool(r.name, r.arguments, users, rng, now).resp
                    = handle_call_tool(r.name, r.arguments, USERS_DB,
                                       call.rng, now).resp
        /\ get_metrics(HttpRequest(Absent, Absent, StrV("sales"),
                                   StrV(<<"3">>)), rng, now).resp
              = get_metrics(HttpRequest(Absent, Absent, StrV("sales"),
                                        StrV(<<"3">>)), call.rng, now).resp

\* the store raised on its one call and the handler answered with an
\* error
C15_Witness ==
    /\ Failed
    /\ call.transport = "mcp"
    /\ Len(store_calls) = 1
    /\ store_calls[1].out.exc = "ValueError"
    /\ resp.error = <<"Error: ", "User ", "user_004", " not found">>

(***************************************************************************)
(* C16. Optional inputs get their defaults at the facade, on both        *)
(* transports: an omitted theme is "light", an omitted category is       *)
(* "sales", an omitted limit is 10.  The invocation with a parameter     *)
(* omitted and the invocation with the default written out, run from     *)
(* the same state, make the same store calls and the same renderer       *)
(* calls and return the same result.                                     *)
(***************************************************************************)
OrElse(v, default) == IF v = Absent THEN default ELSE v

\* the arguments of the last invocation with every omitted optional
\* parameter written out
McpExplicit ==
    [theme       |-> OrElse(NormArgs(call.args).theme, StrV("light")),
     user_id     |-> NormArgs(call.args).user_id,
     metric_type |-> OrElse(NormArgs(call.args).metric_type, StrV("sales")),
     limit       |-> OrElse(NormArgs(call.args).limit, IntV(10))]

HttpExplicit ==
    HttpRequest(OrElse(call.args.query.theme, StrV("light")),
                call.args.match_info.user_id,
                OrElse(call.args.query.type, StrV("sales")),
                OrElse(call.args.query.limit, StrV(<<"1", "0">>)))

\* the last invocation run again from the state it started in, the
\* defaults written out
ExplicitTwin ==
    IF call.transport = "mcp"
    THEN handle_call_tool(call.name, McpExplicit, users, call.rng, call.today)
    ELSE IF call.name = "get_dashboard"
    THEN get_dashboard(HttpExplicit, users, call.rng, call.today)
    ELSE IF call.name = "get_user_profile"
    THEN get_user_profile(HttpExplicit, users, call.rng)
    ELSE get_metrics(HttpExplicit, call.rng, call.today)

\* C16: omitting an optional parameter is giving its default
C16_DefaultsAtFacade ==
    IsFacadeCall =>
        /\ ExplicitTwin.store = store_calls
        /\ ExplicitTwin.render = render_calls
        /\ ExplicitTwin.resp = resp

\* an HTTP metrics request without category and limit
C16_Witness ==
    /\ call.transport = "http"
    /\ IsMetricsCall
    /\ ReqType = Absent
    /\ ReqLimit = Absent
    /\ store_calls[1].args = <<StrV("sales"), IntV(10)>>
    /\ render_calls[1].args[2] = StrV("sales")
    /\ Len(resp.html.rows) = 10

(***************************************************************************)
(* C17. render_metrics_table emits one body row per point, in the order  *)
(* of the points, and for each enumerated category the header cells and  *)
(* the cells of every row follow that category's column order: the date  *)
(* first, then the category's three fields, whatever the values.         *)
(***************************************************************************)
\* the fields of a category in column order
Columns(category) ==
    IF category = StrV("sales")
    THEN <<"date", "revenue", "orders", "avg_order_value">>
    ELSE IF category = StrV("performance")
    THEN <<"date", "response_time", "requests", "error_rate">>
    ELSE <<"date", "active_users", "page_views", "avg_session_duration">>

\* how each column writes its value: as it is, with thousands
\* separators, or as a decimal number
Written(field, value) ==
    IF field \in {"revenue", "requests", "active_users", "page_views"}
    THEN Commas(value)
    ELSE IF field \in {"avg_order_value", "error_rate"}
    THEN FloatStr(value)
    ELSE value

TableCalls ==
    {k \in 1..Len(render_calls) :
        /\ render_calls[k].fn = "render_metrics_table"
        /\ render_calls[k].args[2] \in Categories}

\* C17: rows in input order, headers and cells in the category's order
C17_RowsInOrder ==
    \A k \in TableCalls :
        LET points   == render_calls[k].args[1]
            category == render_calls[k].args[2]
        IN  /\ resp.kind = "ok"
            /\ resp.html.headers = ExpectedHeaders(category)
            /\ Len(resp.html.rows) = Len(points)
            /\ \A i \in 1..Len(points) :
                  /\ Len(resp.html.rows[i]) = 4
                  /\ \A j \in 1..4 :
                        resp.html.rows[i][j].val =
                            Written(Columns(category)[j],
                                    points[i][Columns(category)[j]])

\* a table of three sales rows whose dates and revenues differ
C17_Witness ==
    /\ TableCalls # {}
    /\ render_calls[1].args[2] = StrV("sales")
    /\ Len(resp.html.rows) = 3
    /\ resp.html.rows[1][1].val = render_calls[1].args[1][1].date
    /\ resp.html.rows[3][1].val = render_calls[1].args[1][3].date
    /\ resp.html.rows[1][1].val # resp.html.rows[3][1].val
    /\ resp.html.rows[1][2].val # resp.html.rows[2][2].val

(***************************************************************************)
(* C18. A category outside sales, performance, engagement that reaches   *)
(* the store and the renderer is no error: the store returns no points   *)
(* for any count, the renderer takes the engagement headers and row      *)
(* format, and the result is a successful document with the engagement   *)
(* header row and no body rows.                                          *)
(***************************************************************************)
\* the store calls of the last invocation for a category not enumerated
UnknownStoreCalls ==
    {k \in 1..Len(store_calls) :
        /\ store_calls[k].fn = "get_metrics_data"
        /\ store_calls[k].args[1] \notin Categories
        /\ IsInt(store_calls[k].args[2])}

UnknownTableCalls ==
    {k \in 1..Len(render_calls) :
        /\ render_calls[k].fn = "render_metrics_table"
        /\ IsStr(render_calls[k].args[2])
        /\ render_calls[k].args[2] \notin Categories}

EngagementStoreCalls ==
    {k \in MetricsStoreCalls : store_calls[k].args[1] = StrV("engagement")}

\* C18: an unknown category gives an empty engagement table, not an error
C18_UnknownCategoryFallsBack ==
    /\ \A k \in UnknownStoreCalls :
          /\ store_calls[k].out.exc = "none"
          /\ store_calls[k].out.val = <<>>
    /\ \A k \in UnknownTableCalls :
          /\ render_calls[k].args[1] = <<>>
          /\ resp.kind = "ok"
          /\ resp.html.headers =
                <<"Date", "Active Users", "Page Views", "Avg Session (s)">>
          /\ resp.html.rows = <<>>
    /\ \A k \in EngagementStoreCalls :
          /\ render_metrics_table(store_calls[k].out.val,
                                  StrV("revenue")).exc = "none"
          /\ render_metrics_table(store_calls[k].out.val,
                                  StrV("revenue")).val.rows
                = render_metrics_table(store_calls[k].out.val,
                                       StrV("engagement")).val.rows

\* category "revenue" with count 30 on the MCP transport
C18_Witness ==
    /\ call.transport = "mcp"
    /\ UnknownStoreCalls # {}
    /\ store_calls[1].args = <<StrV("revenue"), IntV(30)>>
    /\ store_calls[1].out.val = <<>>
    /\ UnknownTableCalls # {}
    /\ resp.kind = "ok"
    /\ resp.html.rows = <<>>
    /\ resp.html.headers =
          <<"Date", "Active Users", "Page Views", "Avg Session (s)">>

(***************************************************************************)
(* C19. The MCP transport lists exactly the three tools                  *)
(* get_dynamic_dashboard, get_user_profile, get_metrics_table, and       *)
(* handle_call_tool reaches the store and the renderers for those names  *)
(* only: a call with another name, or a get_user_profile call whose      *)
(* user_id is missing or empty, returns one error text and calls         *)
(* neither the store nor a renderer.                                     *)
(***************************************************************************)
ListedNames(tools) == [i \in 1..Len(tools) |-> tools[i].name]

IsToolCall == call.transport = "mcp" /\ call.name # "tools/list"

Dispatched == {"get_dynamic_dashboard", "get_user_profile", "get_metrics_table"}

\* the last tool call has an unknown name or lacks the required user_id
Undispatchable ==
    \/ call.name \notin Dispatched
    \/ call.name = "get_user_profile" /\ Falsy(NormArgs(call.args).user_id)

\* C19: three tools listed, and only they reach the store and renderers
C19_ToolDispatch ==
    /\ (call.transport = "mcp" /\ call.name = "tools/list") =>
          /\ resp.kind = "tools"
          /\ ListedNames(resp.tools) =
                <<"get_dynamic_dashboard", "get_user_profile",
                  "get_metrics_table">>
    /\ IsToolCall =>
          /\ (store_calls # <<>> \/ render_calls # <<>>) =>
                call.name \in Dispatched
          /\ Undispatchable =>
                /\ resp.kind = "error"
                /\ resp.html = NoDoc
                /\ Head(resp.error) = "Error: "
                /\ Len(resp.error) > 1
                /\ store_calls = <<>>
                /\ render_calls = <<>>

\* a call of an unlisted tool that carries a seeded user_id
C19_Witness ==
    /\ IsToolCall
    /\ call.name = "get_weather"
    /\ call.args # Absent
    /\ call.args.user_id = StrV("user_001")
    /\ resp.error = <<"Error: ", "Unknown tool: ", "get_weather">>
    /\ store_calls = <<>>
    /\ render_calls = <<>>

(***************************************************************************)
(* C20. The renderers are total on what the facade hands them.  Over     *)
(* every sequence of facade invocations, the points handed to            *)
(* render_metrics_table are those the store generated for the category   *)
(* the renderer is given, or none when the category is not enumerated,   *)
(* so that no row reads a field its point lacks, and no renderer call    *)
(* fails.                                                                *)
(* Fails: handle_call_tool hands a metric_type that is no string to      *)
(* render_metrics_table, which raises on metric_type.title().            *)
(***************************************************************************)
AllTableCalls ==
    {k \in 1..Len(render_calls) :
        render_calls[k].fn = "render_metrics_table"}

\* the store of the last invocation generated `points` for `category`
GeneratedFor(points, category) ==
    \E k \in 1..Len(store_calls) :
        /\ store_calls[k].fn = "get_metrics_data"
        /\ store_calls[k].args[1] = category
        /\ store_calls[k].out.exc = "none"
        /\ store_calls[k].out.val = points

\* the points and the category of a renderer call fit each other
Coherent(points, category) ==
    /\ GeneratedFor(points, category)
    /\ category \notin Categories => points = <<>>
    /\ \A i \in 1..Len(points) :
          \A j \in 1..4 : Columns(category)[j] \in DOMAIN points[i]

\* C20: coherent arguments, and no renderer call of a handler fails
C20_RendererTotal ==
    IsFacadeCall =>
        /\ \A k \in AllTableCalls :
              /\ Coherent(render_calls[k].args[1], render_calls[k].args[2])
              /\ render_metrics_table(render_calls[k].args[1],
                                      render_calls[k].args[2]).exc = "none"
        /\ render_calls # <<>> => resp.kind = "ok"

(***************************************************************************)
(* C21. Neither transport checks the theme before rendering.  The        *)
(* dashboard operation succeeds whatever the theme; the theme reaches    *)
(* render_dashboard as given ("light" when omitted); the exact string    *)
(* "light" selects the light colours and every other value, unknown,     *)
(* empty, differently cased or no string at all, the dark colours.       *)
(***************************************************************************)
IsDashboardCall ==
    \/ call.transport = "mcp" /\ call.name = "get_dynamic_dashboard"
    \/ call.transport = "http" /\ call.name = "get_dashboard"

\* the theme the last dashboard request gave
ReqTheme ==
    IF call.transport = "mcp" THEN NormArgs(call.args).theme
    ELSE call.args.query.theme

\* C21: any theme but "light" renders, with the dark colours
C21_ThemeNotValidated ==
    IsDashboardCall =>
        /\ resp.kind = "ok"
        /\ resp.html.widget = "dashboard"
        /\ Len(render_calls) = 1
        /\ render_calls[1].args[2] = OrElse(ReqTheme, StrV("light"))
        /\ OrElse(ReqTheme, StrV("light")) = StrV("light") =>
              Colours(resp.html) = <<"#ffffff", "#333333", "#f8f9fa">>
        /\ OrElse(ReqTheme, StrV("light")) # StrV("light") =>
              Colours(resp.html) = <<"#1a1a1a", "#f0f0f0", "#2d2d2d">>

\* the unknown theme "blue" on the HTTP transport
C21_Witness ==
    /\ IsDashboardCall
    /\ call.transport = "http"
    /\ ReqTheme = StrV("blue")
    /\ resp.status = 200
    /\ Colours(resp.html) = <<"#1a1a1a", "#f0f0f0", "#2d2d2d">>

=============================================================================
